---- MODULE Spec2Model ----
(***************************************************************************)
(* Model of bioptim's Solution (src/bioptim/optimization/solution.py):     *)
(* construction/decoding, copy, integrate, interpolate and merge_phases.   *)
(*                                                                         *)
(* A 2D numpy array is a record [nr |-> rows, c |-> sequence of columns],  *)
(* a column being a sequence of nr integers.  A python dict is a sequence  *)
(* of [k |-> key, m |-> array] in insertion order.  An attribute that can  *)
(* be None, a list or a dict is a record [tag, v].  Times are counted in   *)
(* half units, so that the durations 1 and 1.5 are the integers 2 and 3.   *)
(***************************************************************************)
EXTENDS Integers, Sequences, FiniteSets, TLC

MaxPhases == 2
MaxNs == 2
MaxSteps == 2
MaxChain == 3
MaxFrames == 3

VARIABLES ocp, chain, made, lastCall, plotted

vars == <<ocp, chain, made, lastCall, plotted>>

----------------------------------------------------------------------------
(* numpy arrays *)

Mat(nr, cols) == [nr |-> nr, c |-> cols]

NCols(m) == Len(m.c)

Min(a, b) == IF a < b THEN a ELSE b

\* m[:, a:b], python half-open slice on columns, clipped to the array
ColSlice(m, a, b) ==
    Mat(m.nr, [i \in 1..(IF Min(b, NCols(m)) > a THEN Min(b, NCols(m)) - a ELSE 0) |-> m.c[a + i]])

\* m[off : off + n, :], python slice on rows, clipped to the array
RowSlice(m, off, n) ==
    LET hi == Min(off + n, m.nr)
        k  == IF hi > off THEN hi - off ELSE 0
    IN  Mat(k, [j \in 1..NCols(m) |-> [r \in 1..k |-> m.c[j][off + r]]])

\* results of operations that may raise: err = "" when no exception
Ok(v) == [err |-> "", v |-> v]
Err(e) == [err |-> e, v |-> <<>>]

\* a concatenation that does not compare the row counts
HConcatUnchecked(ra, rb) ==
    IF ra.err # "" THEN ra
    ELSE IF rb.err # "" THEN rb
    ELSE Ok(Mat(ra.v.nr, ra.v.c \o rb.v.c))

\* np.concatenate((a, b), axis=1) on results: row counts must agree
HConcat(ra, rb) ==
    IF ra.err # "" THEN ra
    ELSE IF rb.err # "" THEN rb
    ELSE IF ra.v.nr # rb.v.nr THEN Err("ValueError")
    ELSE Ok(Mat(ra.v.nr, ra.v.c \o rb.v.c))

\* m[:, -1][:, np.newaxis]: the last column as a one-column array
LastCol(m) ==
    IF NCols(m) = 0 THEN Err("IndexError")
    ELSE Ok(Mat(m.nr, <<m.c[NCols(m)]>>))

----------------------------------------------------------------------------
(* python dicts in insertion order *)

Keys(d) == [i \in 1..Len(d) |-> d[i].k]

KeySet(d) == {d[i].k : i \in 1..Len(d)}

HasKey(d, key) == key \in KeySet(d)

Get(d, key) == d[CHOOSE i \in 1..Len(d) : d[i].k = key].m

\* d[key] = m: replaces the value of an existing key, appends a new key
Put(d, key, m) ==
    IF HasKey(d, key)
    THEN [i \in 1..Len(d) |-> IF d[i].k = key THEN [k |-> key, m |-> m] ELSE d[i]]
    ELSE Append(d, [k |-> key, m |-> m])

None == [tag |-> "None", v |-> <<>>]
List(v) == [tag |-> "list", v |-> v]
Dict(v) == [tag |-> "dict", v |-> v]

----------------------------------------------------------------------------
(* The optimal control program wrapped by a Solution (SimplifiedOCP).      *)

ControlTypes == {"CONSTANT", "LINEAR_CONTINUOUS", "LINEAR_DISCONTINUOUS"}

Shootings == {"SINGLE", "MULTIPLE"}

\* var_states of a phase: variable name and number of rows, in declared order
BaseLayout == <<[k |-> "q", n |-> 1], [k |-> "qdot", n |-> 2]>>

Layouts ==
    { BaseLayout,
      <<[k |-> "qdot", n |-> 2], [k |-> "q", n |-> 1]>>,
      <<[k |-> "qdot", n |-> 1], [k |-> "q", n |-> 2]>>,
      <<[k |-> "q", n |-> 1], [k |-> "qdot", n |-> 1]>>,
      <<[k |-> "q", n |-> 1], [k |-> "w", n |-> 2]>> }

RECURSIVE SumSizes(_)
SumSizes(layout) ==
    IF layout = <<>> THEN 0 ELSE layout[1].n + SumSizes(Tail(layout))

RECURSIVE SumSeq(_)
SumSeq(s) == IF s = <<>> THEN 0 ELSE s[1] + SumSeq(Tail(s))

SimplifiedNLP(ns, steps, ct, layout, nu) ==
    [ns |-> ns, nx |-> SumSizes(layout), nu |-> nu, n_integration_steps |-> steps,
     control_type |-> ct, var_states |-> layout, J |-> <<>>, g |-> <<>>]

\* tf of phase p, in half units: 1, 1.5, 2, ...
Tf(p) == p + 1

SimplifiedOCP(nlps, ptdim, rate, n_param) ==
    [nlp |-> nlps,
     phase_transitions |-> [p \in 1..(Len(nlps) - 1) |-> [dim |-> nlps[p].nx + ptdim]],
     rate |-> rate,
     n_param |-> n_param,
     J |-> <<>>,
     g |-> <<>>]

\* node counts of n phases: all equal, or cycling through 1..MaxNs
NsPatterns(n) ==
    {[p \in 1..n |-> 1 + ((a + p * b) % MaxNs)] : a \in 0..(MaxNs - 1), b \in {0, 1}}

\* control types of n phases: the two known kinds, uniform or alternating,
\* and an unknown kind in one phase
CtPatterns(n) ==
    {[p \in 1..n |-> c] : c \in {"CONSTANT", "LINEAR_CONTINUOUS"}}
        \cup {[p \in 1..n |-> IF (p + a) % 2 = 0 THEN "CONSTANT" ELSE "LINEAR_CONTINUOUS"] :
                a \in {0, 1}}
        \cup {[p \in 1..n |-> IF p = k THEN "LINEAR_DISCONTINUOUS" ELSE "CONSTANT"] : k \in 1..n}

\* integration steps per interval and rate of the dynamics: rate 0 is the
\* identity step, taken with one step per interval
StepRates == {<<s, 1>> : s \in 1..MaxSteps} \cup {<<1, 0>>}

\* programs whose phases all have the same variables, and whose phase
\* transitions have the dimension of the states
RegularOcps ==
    UNION { { SimplifiedOCP([p \in 1..n |-> SimplifiedNLP(nss[p], sr[1], cts[p], BaseLayout, 1)],
                            0, sr[2], 0) :
                nss \in NsPatterns(n), cts \in CtPatterns(n), sr \in StepRates } :
            n \in 1..MaxPhases }

\* programs whose later phases declare other state variables or one more
\* control, or whose phase transitions have one more row than the states
IrregularOcps ==
    { SimplifiedOCP([p \in 1..n |-> SimplifiedNLP(IF p = 1 THEN 1 ELSE MaxNs, 1, "CONSTANT",
                                                  IF p = 1 THEN BaseLayout ELSE v[1],
                                                  IF p = 1 THEN 1 ELSE v[3])],
                    v[2], 1, 0) :
        n \in 2..MaxPhases,
        v \in {<<lay, ptdim, 1>> : lay \in Layouts, ptdim \in {0, 1}} \cup {<<BaseLayout, 0, 2>>} }

\* programs with one parameter
ParamOcps ==
    { SimplifiedOCP([p \in 1..n |-> SimplifiedNLP(1, 1, "CONSTANT", BaseLayout, 1)], 0, 1, 1) :
        n \in 1..MaxPhases }

\* an entry of a penalty target: a number, or not-a-number
Num(v) == [nan |-> FALSE, v |-> v]
NaN == [nan |-> TRUE, v |-> 0]

\* a penalty of a list J: val is the value of pen["val"] at the decision
\* vector, target is None or an array of the shape of val
Penalty(name, val, target, quadratic) ==
    [name |-> name, val |-> val, target |-> target, quadratic |-> quadratic,
     weight |-> 2, dt |-> 1]

\* a constraint of a list g: its name and the rows of g["val"]
Constraint(name, rows) == [name |-> name, rows |-> rows]

Targets == {None, List(<<Num(1), NaN>>), List(<<Num(1), Num(2)>>)}

\* one-phase programs with one global objective, one objective and two
\* constraint groups in the phase
PenaltyOcps ==
    { [SimplifiedOCP(<<[SimplifiedNLP(1, 1, "CONSTANT", BaseLayout, 1) EXCEPT
                           !.J = <<<<Penalty("track", <<3, 4>>, t[2], TRUE)>>>>,
                           !.g = <<<<Constraint("c1", 1), Constraint("c2", 1)>>,
                                   <<Constraint("c3", 1)>>>>]>>,
                     0, 1, 0) EXCEPT
          !.J = <<<<Penalty("time", <<3, 4>>, t[1], FALSE)>>>>,
          !.g = <<<<Constraint("c0", 1)>>>>] :
        t \in Targets \X Targets }

Ocps == RegularOcps \cup IrregularOcps \cup ParamOcps \cup PenaltyOcps

----------------------------------------------------------------------------
(* The decision vector and its layout (ocp.v).                             *)

StateVal(p, r, c) == 100 * p + 10 * r + c

ControlVal(p, r, c) == 10 * p + c

\* number of control columns of a phase in the decision vector
ControlCols(nlp) == nlp.ns + (IF nlp.control_type = "LINEAR_CONTINUOUS" THEN 1 ELSE 0)

RECURSIVE StateOffset(_, _)
StateOffset(o, p) ==
    IF p = 1 THEN 0
    ELSE StateOffset(o, p - 1) + o.nlp[p - 1].nx * (o.nlp[p - 1].ns + 1)

RECURSIVE ControlOffset(_, _)
ControlOffset(o, p) ==
    IF p = 1 THEN StateOffset(o, Len(o.nlp) + 1)
    ELSE ControlOffset(o, p - 1) + o.nlp[p - 1].nu * ControlCols(o.nlp[p - 1])

\* values of phase p, node-major: the columns of an nr x ncols array, flattened
Flat(nr, ncols, val(_, _)) ==
    [i \in 1..(nr * ncols) |-> val(((i - 1) % nr) + 1, ((i - 1) \div nr) + 1)]

RECURSIVE FlatStates(_, _)
FlatStates(o, p) ==
    IF p > Len(o.nlp) THEN <<>>
    ELSE LET val(r, c) == StateVal(p, r, c)
         IN  Flat(o.nlp[p].nx, o.nlp[p].ns + 1, val) \o FlatStates(o, p + 1)

RECURSIVE FlatControls(_, _)
FlatControls(o, p) ==
    IF p > Len(o.nlp) THEN <<>>
    ELSE LET val(r, c) == ControlVal(p, r, c)
         IN  Flat(o.nlp[p].nu, ControlCols(o.nlp[p]), val) \o FlatControls(o, p + 1)

\* the vector a solver returns for o, and the one built from initial guesses
SolverVector(o) == FlatStates(o, 1) \o FlatControls(o, 1)

\* the nr x ncols array stored node-major at offset off of vector v
Unflat(v, off, nr, ncols) ==
    Mat(nr, [c \in 1..ncols |-> [r \in 1..nr |-> v[off + (c - 1) * nr + r]]])

\* {"all": m, key: rows of m, ...} for the keys of layout, contiguous offsets
RECURSIVE Dispatch(_, _, _, _)
Dispatch(d, m, layout, off) ==
    IF layout = <<>> THEN d
    ELSE Dispatch(Put(d, layout[1].k, RowSlice(m, off, layout[1].n)),
                  m, Tail(layout), off + layout[1].n)

AllDict(m) == <<[k |-> "all", m |-> m]>>

\* ocp.v.to_dictionaries(vector)
to_dictionaries(o, v) ==
    [states |-> [p \in 1..Len(o.nlp) |->
                    LET m == Unflat(v, StateOffset(o, p), o.nlp[p].nx, o.nlp[p].ns + 1)
                    IN  Dispatch(AllDict(m), m, o.nlp[p].var_states, 0)],
     controls |-> [p \in 1..Len(o.nlp) |->
                    LET m == Unflat(v, ControlOffset(o, p), o.nlp[p].nu, ControlCols(o.nlp[p]))
                    IN  Dispatch(AllDict(m), m, <<[k |-> "tau", n |-> o.nlp[p].nu]>>, 0)],
     parameters |-> AllDict(Mat(o.n_param, <<>>))]

\* ocp.v.extract_phase_time(vector)
extract_phase_time(o, v) == <<0>> \o [p \in 1..Len(o.nlp) |-> Tf(p)]

----------------------------------------------------------------------------
(* Solution: construction and decoding.                                    *)

NoSol == [tag |-> "NoSol"]

\* state of a Solution object right after the first lines of __init__
NewSolution(o) ==
    [is_interpolated |-> FALSE, is_integrated |-> FALSE, is_merged |-> FALSE,
     vector |-> None, constraints |-> None, _states |-> None, _controls |-> None, _parameters |-> None,
     phase_time |-> None, ns |-> [p \in 1..Len(o.nlp) |-> o.nlp[p].ns]]

\* a completion of the first key only
CompleteKeysFirstOnly(d, i) ==
    LET r == HConcat(Ok(d[1].m), LastCol(d[1].m))
    IN  IF r.err # "" THEN r ELSE Ok([d EXCEPT ![1].m = r.v])

\* one phase of _complete_control: every key gets its last column appended
RECURSIVE CompleteKeys(_, _)
CompleteKeys(d, i) ==
    IF i > Len(d) THEN Ok(d)
    ELSE LET r == HConcat(Ok(d[i].m), LastCol(d[i].m))
         IN  IF r.err # "" THEN r
             ELSE CompleteKeys([d EXCEPT ![i].m = r.v], i + 1)

RECURSIVE CompleteFrom(_, _, _)
CompleteFrom(o, controls, p) ==
    IF p > Len(o.nlp) THEN Ok(controls)
    ELSE IF o.nlp[p].control_type = "CONSTANT"
         THEN LET r == CompleteKeys(controls[p], 1)
              IN  IF r.err # "" THEN r
                  ELSE CompleteFrom(o, [controls EXCEPT ![p] = r.v], p + 1)
    ELSE IF o.nlp[p].control_type = "LINEAR_CONTINUOUS"
         THEN CompleteFrom(o, controls, p + 1)
    ELSE Err("NotImplementedError")

_complete_control(o, controls) == CompleteFrom(o, controls, 1)

\* the Solution holding the decoded data d and the completed controls c
Decoded(o, v, d, c) ==
    IF c.err # "" THEN Err(c.err)
    ELSE Ok([NewSolution(o) EXCEPT
                !.vector = List(v),
                !._states = List(d.states),
                !._controls = List(c.v),
                !._parameters = Dict(d.parameters),
                !.phase_time = List(extract_phase_time(o, v))])

Completed(o, v, d) == Decoded(o, v, d, _complete_control(o, d.controls))

\* the common tail of init_from_dict, init_from_initial_guess and init_from_vector
Decode(o, v) == Completed(o, v, to_dictionaries(o, v))

\* sol["g"]: one value per constraint row
SolverConstraints(o) == <<7, 8, 9, 10>>

\* lines 96-98: the fields of the solver's record other than "x"
WithRecord(o, res) ==
    IF res.err # "" THEN res ELSE Ok([res.v EXCEPT !.constraints = List(SolverConstraints(o))])

init_from_dict(o) == WithRecord(o, Decode(o, SolverVector(o)))

init_from_vector(o) == Decode(o, SolverVector(o))

init_from_none(o) ==
    Ok([NewSolution(o) EXCEPT
            !._states = Dict(<<>>), !._controls = Dict(<<>>), !._parameters = Dict(<<>>),
            !.phase_time = List(<<>>), !.ns = <<>>])

\* an entry of the list given as initial guess: its type (an InitialGuess, an
\* InitialGuessList, or a plain list of InitialGuess), len() and vector size
GuessEntry(type, len, rows) == [type |-> type, len |-> len, rows |-> rows]

\* lines 118-123: an InitialGuess becomes an InitialGuessList with one copy per phase
AsLists(o, sol) ==
    [i \in 1..Len(sol) |->
        IF sol[i].type = "InitialGuess"
        THEN [sol[i] EXCEPT !.type = "InitialGuessList", !.len = Len(o.nlp)]
        ELSE sol[i]]

\* lines 139-160: the vector built from the guesses (the values of the
\* parameters follow those of the controls), or the error of an unknown
\* control type
GuessVector(o, sol) ==
    IF \E p \in 1..Len(o.nlp) : o.nlp[p].control_type \notin {"CONSTANT", "LINEAR_CONTINUOUS"}
    THEN Err("NotImplementedError")
    ELSE Ok(SolverVector(o) \o
            (IF o.n_param = 0 THEN <<>>
             ELSE [i \in 1..SumSeq([p \in 1..sol[3].len |-> sol[3].rows * (o.nlp[p].ns + 1)]) |-> 7]))

\* lines 139-164
GuessDecode(o, v) == IF v.err # "" THEN v ELSE Decode(o, v.v)

init_from_initial_guess(o, sol0) ==
    LET sol == AsLists(o, sol0)
        n_param == o.n_param
        nLists == Cardinality({i \in 1..Len(sol) : sol[i].type = "InitialGuessList"})
        \* enumerate() counts from 0: the test "p != 3" holds for every entry
        nBadLen == Cardinality({i \in 1..Len(sol) : (i - 1) # 3 /\ sol[i].len # Len(o.nlp)})
    IN  IF nLists # 2 THEN Err("ValueError")
        ELSE IF nBadLen # 0 THEN Err("ValueError")
        \* line 133: with two entries sol[2] does not exist; with three the
        \* conjunction is false and nothing is raised
        ELSE IF n_param # 0 /\ Len(sol) # 3 THEN Err("IndexError")
        ELSE IF sol[1].type # "InitialGuessList" \/ sol[2].type # "InitialGuessList"
             THEN Err("TypeError")
        ELSE GuessDecode(o, GuessVector(o, sol))

GuessInputs ==
    { <<GuessEntry("InitialGuess", 1, 3), GuessEntry("InitialGuess", 1, 1)>>,
      <<GuessEntry("InitialGuessList", 1, 3), GuessEntry("InitialGuessList", 1, 1)>>,
      <<GuessEntry("InitialGuessList", 2, 3), GuessEntry("InitialGuessList", 2, 1),
        GuessEntry("InitialGuessList", 1, 1)>>,
      <<GuessEntry("InitialGuess", 1, 3), GuessEntry("InitialGuess", 1, 1),
        GuessEntry("InitialGuess", 1, 1)>>,
      <<GuessEntry("InitialGuess", 1, 3), GuessEntry("InitialGuess", 1, 1),
        GuessEntry("list", 1, 1)>>,
      <<GuessEntry("InitialGuess", 1, 3), GuessEntry("InitialGuess", 1, 1),
        GuessEntry("list", 2, 3)>>,
      <<GuessEntry("InitialGuess", 1, 3), GuessEntry("list", 1, 1)>> }

\* a copy that starts from the flags of a new Solution
copyResettingFlags(self, skip_data) ==
    [self EXCEPT !.is_integrated = FALSE, !.is_interpolated = FALSE, !.is_merged = FALSE,
                 !._states = IF skip_data THEN None ELSE @,
                 !._controls = IF skip_data THEN None ELSE @,
                 !._parameters = IF skip_data THEN None ELSE @]

\* Solution.copy
copy(self, skip_data) ==
    IF skip_data
    THEN [self EXCEPT !._states = None, !._controls = None, !._parameters = None]
    ELSE self

\* python truth value of an attribute: None, [] and {} are false
Truthy(x) == x.tag # "None" /\ x.v # <<>>

\* a controls property that returns whatever _controls holds
controlsUnchecked(self) ==
    Ok(IF self._controls.tag = "list" /\ Len(self._controls.v) = 1
       THEN Dict(self._controls.v[1]) ELSE self._controls)

\* Solution.controls
controls(self) ==
    IF ~Truthy(self._controls) THEN Err("RuntimeError")
    ELSE Ok(IF Len(self._controls.v) = 1 THEN Dict(self._controls.v[1]) ELSE self._controls)

----------------------------------------------------------------------------
(* Solution._merge_phases and Solution.merge_phases.                       *)

Sizes(d) == [i \in 1..Len(d) |-> d[i].m.nr]

\* lines 405-408: for p, for key in data[p], append data[p][key][:, :ns[p]]
RECURSIVE MergeLoop(_, _, _, _, _)
MergeLoop(self, data, p, i, acc) ==
    IF acc.err # "" \/ p > Len(data) THEN acc
    ELSE IF i > Len(data[p]) THEN MergeLoop(self, data, p + 1, 1, acc)
    ELSE IF p > Len(self.ns) THEN Err("IndexError")
    ELSE IF ~HasKey(acc.v, data[p][i].k) THEN Err("KeyError")
    ELSE LET key == data[p][i].k
             r   == HConcat(Ok(Get(acc.v, key)), Ok(ColSlice(data[p][i].m, 0, self.ns[p])))
         IN  IF r.err # "" THEN r
             ELSE MergeLoop(self, data, p, i + 1, Ok(Put(acc.v, key, r.v)))

\* lines 409-411: for key in data[-1], append data[-1][key][:, -1]
RECURSIVE LastCopy(_, _, _)
LastCopy(last, i, acc) ==
    IF acc.err # "" \/ i > Len(last) THEN acc
    ELSE LET key == last[i].k
             r   == HConcat(Ok(Get(acc.v, key)), LastCol(last[i].m))
         IN  IF r.err # "" THEN r
             ELSE LastCopy(last, i + 1, Ok(Put(acc.v, key, r.v)))

\* lines 401-403: an empty array per key of the first phase
EmptyOut(d) == [i \in 1..Len(d) |-> [k |-> d[i].k, m |-> Mat(d[i].m.nr, <<>>)]]

\* line 413: the merged dict, in a list
InList(done) == IF done.err # "" THEN done ELSE Ok(List(<<done.v>>))

\* _merge(data) for a list of per-phase dicts
_merge(self, data, force_skip_last_copy) ==
    IF \E p \in 1..Len(data) : KeySet(data[p]) # KeySet(data[1]) \/ Sizes(data[p]) # Sizes(data[1])
    THEN Err("RuntimeError")
    ELSE InList(IF force_skip_last_copy
                THEN MergeLoop(self, data, 1, 1, Ok(EmptyOut(data[1])))
                ELSE LastCopy(data[Len(data)], 1, MergeLoop(self, data, 1, 1, Ok(EmptyOut(data[1])))))

\* _merge applied to the states / controls property of self
MergeProperty(self, attr, force_skip_last_copy) ==
    IF Len(attr.v) = 1 THEN Ok(Dict(attr.v[1]))
    ELSE _merge(self, attr.v, force_skip_last_copy)

\* the duration of the last phase alone
DurationsLastOnly(phase_time) == IF phase_time = <<>> THEN 0 ELSE phase_time[Len(phase_time)]

\* sum([phase_time[i + 1] for i in range(len(phase_time) - 1)])
Durations(phase_time) == IF phase_time = <<>> THEN 0 ELSE SumSeq(Tail(phase_time))

\* lines 417-420: the tuple returned, out_states being computed first
MergeResult(self, out_states, out_controls) ==
    IF out_states.err # "" THEN out_states
    ELSE IF out_controls.err # "" THEN out_controls
    ELSE Ok([states |-> out_states.v, controls |-> out_controls.v,
             phase_time |-> List(<<0, Durations(self.phase_time.v)>>),
             ns |-> <<SumSeq(self.ns)>>])

\* lines 415-420: the merge proper
MergeAll(self, skip_states, skip_controls, force_skip_last_copy) ==
    MergeResult(self,
                IF ~skip_states /\ Truthy(self._states)
                THEN MergeProperty(self, self._states, force_skip_last_copy)
                ELSE Ok(None),
                IF ~skip_controls /\ Truthy(self._controls)
                THEN MergeProperty(self, self._controls, force_skip_last_copy)
                ELSE Ok(None))

\* a _merge_phases that returns early only for an already merged Solution and
\* runs _merge on the one phase of a single-phase Solution
_merge_phasesOnlyIfMerged(self, skip_states, skip_controls, force_skip_last_copy) ==
    IF ~self.is_merged /\ self._states.tag = "None" THEN Err("TypeError")
    ELSE IF self.is_merged
    THEN Ok([states |-> self._states, controls |-> self._controls,
             phase_time |-> self.phase_time, ns |-> self.ns])
    ELSE MergeResult(self,
                     IF ~skip_states /\ Truthy(self._states)
                     THEN _merge(self, self._states.v, force_skip_last_copy)
                     ELSE Ok(None),
                     IF ~skip_controls /\ Truthy(self._controls)
                     THEN _merge(self, self._controls.v, force_skip_last_copy)
                     ELSE Ok(None))

_merge_phases(self, skip_states, skip_controls, force_skip_last_copy) ==
    IF ~self.is_merged /\ self._states.tag = "None" THEN Err("TypeError")
    ELSE IF self.is_merged \/ Len(self._states.v) = 1
    THEN Ok([states |-> self._states, controls |-> self._controls,
             phase_time |-> self.phase_time, ns |-> self.ns])
    ELSE MergeAll(self, skip_states, skip_controls, force_skip_last_copy)

\* result of a method call: the exception, the returned Solution, the receiver afterwards
Raised(e, self) == [err |-> e, out |-> NoSol, self |-> self]
Returned(out, self) == [err |-> "", out |-> out, self |-> self]

\* lines 369-371: the copy of self that takes the tuple m of _merge_phases
MergedCopy(self, m) ==
    IF m.err # "" THEN Raised(m.err, self)
    ELSE Returned([copy(self, TRUE) EXCEPT !._parameters = self._parameters,
                                           !._states = m.v.states, !._controls = m.v.controls,
                                           !.phase_time = m.v.phase_time, !.ns = m.v.ns], self)

\* line 372
SetMerged(res) == IF res.err # "" THEN res ELSE [res EXCEPT !.out.is_merged = TRUE]

\* a merge_phases that forgets to set is_merged
merge_phasesWithoutFlag(self) == MergedCopy(self, _merge_phases(self, FALSE, FALSE, FALSE))

merge_phases(self) == SetMerged(MergedCopy(self, _merge_phases(self, FALSE, FALSE, FALSE)))

----------------------------------------------------------------------------
(* Solution.integrate.                                                     *)

\* content of a column of np.ndarray(shape) that was never written
Uninit(nr) == [r \in 1..nr |-> -1]

\* a view of the first column of the phase, whatever the node
ViewOfFirstColumn(self, p, c) ==
    [v |-> Get(self._states.v[p], "all").c[1], alias |-> "self", p |-> p, c |-> 1]

\* x0 is a numpy view: of a column of the receiver's states, or of `integrated`
ViewOfSelf(self, p, c) ==
    [v |-> Get(self._states.v[p], "all").c[c + 1], alias |-> "self", p |-> p, c |-> c + 1]

ViewOfIntegrated(integrated) ==
    [v |-> integrated.c[NCols(integrated)], alias |-> "integrated", p |-> 0, c |-> 0]

\* value of phase_transitions[p - 1].casadi_function(self.vector)
TransitionVal(o, p) == [r \in 1..o.phase_transitions[p].dim |-> 5]

\* ocp.nlp[p].dynamics[n](x0=x0, p=u, params=params)["xall"]:
\* the start state followed by one point per integration step
Dynamics(o, p, x0, u) ==
    IF Len(x0) # o.nlp[p].nx THEN Err("RuntimeError")
    ELSE LET gain == IF NCols(u) = 0 \/ u.nr = 0 THEN 0 ELSE u.c[1][1]
         IN  Ok(Mat(Len(x0), [k \in 1..(o.nlp[p].n_integration_steps + 1) |->
                                [r \in 1..Len(x0) |-> x0[r] + (k - 1) * o.rate * gain]]))

\* m[:, range(first, first + NCols(src))] = src
AssignCols(m, first, src) ==
    IF first + NCols(src) > NCols(m) THEN Err("IndexError")
    ELSE IF src.nr # m.nr THEN Err("ValueError")
    ELSE Ok(Mat(m.nr, [j \in 1..NCols(m) |->
                          IF j > first /\ j <= first + NCols(src) THEN src.c[j - first]
                          ELSE m.c[j]]))

\* a phase transition whose value is dropped
AddInPlaceSkipped(self, x0, val) == [x0 |-> x0, self |-> self]

\* x0 += val, written through the view
AddInPlace(self, x0, val) ==
    LET sum == [r \in 1..Len(x0.v) |-> x0.v[r] + val[r]]
    IN  [x0 |-> [x0 EXCEPT !.v = sum],
         self |-> IF x0.alias = "self"
                  THEN [self EXCEPT !._states.v[x0.p] =
                           Put(@, "all", Mat(Get(@, "all").nr,
                                             [Get(@, "all").c EXCEPT ![x0.c] = sum]))]
                  ELSE self]

\* a next start state that is always a view of the receiver's states
NextX0ViewOfSelf(self, p, n, shooting_type, integrated) == ViewOfSelf(self, p, n + 1)

\* line 298: the start state of the next interval
NextX0(self, p, n, shooting_type, integrated) ==
    IF shooting_type = "MULTIPLE" THEN ViewOfSelf(self, p, n + 1)
    ELSE ViewOfIntegrated(integrated)

\* u of interval n (0-based) of phase p
ControlOf(self, o, p, n) ==
    LET all == Get(self._controls.v[p], "all")
    IN  IF o.nlp[p].control_type = "CONSTANT"
        THEN IF n >= NCols(all) THEN Err("IndexError") ELSE Ok(Mat(all.nr, <<all.c[n + 1]>>))
        ELSE IF o.nlp[p].control_type = "LINEAR_CONTINUOUS"
        THEN Ok(ColSlice(all, n, n + 2))
        ELSE Err("NotImplementedError")

\* lines 285-298: st = [err, self, all, x0]
RECURSIVE IntegrateNodes(_, _, _, _, _, _, _)
IntegrateNodes(st, o, p, n, n_steps, shooting_type, continuous) ==
    IF st.err # "" \/ n >= st.self.ns[p] THEN st
    ELSE LET self == st.self
             u == ControlOf(self, o, p, n)
             integrated == IF u.err # "" THEN u ELSE Dynamics(o, p, st.x0.v, u.v)
             written == IF integrated.err # "" THEN integrated
                        ELSE AssignCols(st.all, n * n_steps, integrated.v)
         IN  IF written.err # "" THEN [st EXCEPT !.err = written.err]
             ELSE IF shooting_type = "MULTIPLE" /\ n + 1 >= NCols(Get(self._states.v[p], "all"))
             THEN [st EXCEPT !.err = "IndexError"]
             ELSE IntegrateNodes([st EXCEPT !.all = written.v,
                                            !.x0 = NextX0(self, p, n, shooting_type, integrated.v)],
                                 o, p, n + 1, n_steps, shooting_type, continuous)

RECURSIVE IntegratePhases(_, _, _, _, _)

\* lines 300-304 and the next phase, nodes being the result of the node loop
PhaseDone(st, o, p, n_steps, shooting_type, continuous, nodes) ==
    IF nodes.err # "" THEN [st EXCEPT !.err = nodes.err, !.self = nodes.self]
    ELSE IntegratePhases(
            [st EXCEPT !.self = nodes.self,
                       !.x0 = nodes.x0,
                       !.ns[p] = @ * n_steps,
                       !.states[p] = Dispatch(AllDict(nodes.all), nodes.all,
                                              o.nlp[p].var_states, 0)],
            o, p + 1, shooting_type, continuous)

\* lines 275-298: the start state of the phase (added) and the node loop
PhaseNodes(st, o, p, n_steps, all0, shooting_type, continuous, added) ==
    PhaseDone(st, o, p, n_steps, shooting_type, continuous,
              IntegrateNodes([err |-> "", self |-> added.self, all |-> all0, x0 |-> added.x0],
                             o, p, 0, n_steps, shooting_type, continuous))

\* lines 263-304: st = [err, self, states, ns, x0]
IntegratePhases(st, o, p, shooting_type, continuous) ==
    IF st.err # "" \/ p > Len(st.self._states.v) THEN st
    ELSE IF ~HasKey(st.self._states.v[p], "all") THEN [st EXCEPT !.err = "KeyError"]
    ELSE IF p > Len(o.nlp) \/ p > Len(st.ns) THEN [st EXCEPT !.err = "IndexError"]
    ELSE LET shape   == Get(st.self._states.v[p], "all")
             n_steps == o.nlp[p].n_integration_steps + (IF continuous THEN 0 ELSE 1)
             ncols   == (NCols(shape) - 1) * n_steps + (IF continuous THEN 1 ELSE 0)
             single  == shooting_type = "SINGLE"
         IN  IF ncols < 0 THEN [st EXCEPT !.err = "ValueError"]
             ELSE IF single /\ p # 1 /\ Len(TransitionVal(o, p - 1)) # Len(st.x0.v)
             THEN [st EXCEPT !.err = "RuntimeError"]
             ELSE IF ~single /\ NCols(shape) = 0 THEN [st EXCEPT !.err = "IndexError"]
             ELSE PhaseNodes(st, o, p, n_steps,
                             Mat(shape.nr, [j \in 1..ncols |-> Uninit(shape.nr)]),
                             shooting_type, continuous,
                             IF single /\ p # 1
                             THEN AddInPlace(st.self, st.x0, TransitionVal(o, p - 1))
                             ELSE [x0 |-> ViewOfSelf(st.self, p, 0), self |-> st.self])

\* a sanity check that forgets the merged flag
SanityCheckIgnoringMerged(self) == self.is_integrated \/ self.is_interpolated

\* lines 246-251: TRUE when integrate refuses the receiver
SanityCheck(self) == self.is_integrated \/ self.is_interpolated \/ self.is_merged

\* lines 307-311: out with the merged states, or the error of the merge
IntegrateMerged(out, post, m) ==
    IF m.err # "" THEN Raised(m.err, post)
    ELSE Returned([out EXCEPT !._states = m.v.states, !.phase_time = m.v.phase_time,
                              !.ns = m.v.ns, !.is_merged = TRUE, !.is_integrated = TRUE], post)

\* lines 306-311, out holding the integrated phases
IntegrateFlags(out, post, merge, continuous) ==
    IF ~merge THEN Returned([out EXCEPT !.is_integrated = TRUE], post)
    ELSE IntegrateMerged(out, post, _merge_phases(out, FALSE, TRUE, ~continuous))

\* the end of the phase loop: done = [err, self, states, ns, x0]
IntegrateDone(out0, done, merge, continuous) ==
    IF done.err # "" THEN Raised(done.err, done.self)
    ELSE IntegrateFlags([out0 EXCEPT !._states = List(done.states), !.ns = done.ns],
                        done.self, merge, continuous)

integrate(self, o, shooting_type, merge, continuous) ==
    IF SanityCheck(self) THEN Raised("RuntimeError", self)
    ELSE IF self._states.tag = "None" THEN Raised("TypeError", self)
    ELSE IF self._parameters.tag = "None" THEN Raised("TypeError", self)
    ELSE IF ~HasKey(self._parameters.v, "all") THEN Raised("KeyError", self)
    ELSE IF self._states.v = <<>> THEN Raised("IndexError", self)
    ELSE IF ~HasKey(self._states.v[1], "all") THEN Raised("KeyError", self)
    ELSE IF NCols(Get(self._states.v[1], "all")) = 0 THEN Raised("IndexError", self)
    ELSE IntegrateDone(copy(self, TRUE),
                       IntegratePhases([err |-> "", self |-> self,
                                        states |-> [p \in 1..Len(self._states.v) |-> <<>>],
                                        ns |-> self.ns, x0 |-> ViewOfSelf(self, 1, 0)],
                                       o, 1, shooting_type, continuous),
                       merge, continuous)

----------------------------------------------------------------------------
(* Solution.graphs.                                                        *)

\* a guard that lets an integrated Solution through
ModifiedIgnoringIntegrated(self) == self.is_merged \/ self.is_interpolated

\* line 458: TRUE when graphs refuses the receiver
Modified(self) == self.is_merged \/ self.is_interpolated \/ self.is_integrated

\* the calls graphs makes to the plotting collaborator and to pyplot
graphs(self, show_now, shooting_type) ==
    IF Modified(self) THEN [err |-> "NotImplementedError", calls |-> <<>>]
    ELSE [err |-> "",
          calls |-> <<[fn |-> "prepare_plots", arg |-> List(<<shooting_type>>)],
                      [fn |-> "update_data", arg |-> self.vector]>>
                    \o (IF show_now THEN <<[fn |-> "show", arg |-> None]>> ELSE <<>>)]

----------------------------------------------------------------------------
(* Solution.print.                                                         *)

\* a line written to the console
Line(text, a, b) == [text |-> text, a |-> a, b |-> b]

\* lines 543-544: pen["target"][nan_idx] = 0, written into the array the
\* penalty of the program holds
ZeroNan(pen) ==
    IF pen.target.tag = "None" THEN pen
    ELSE [pen EXCEPT !.target = List([i \in 1..Len(@.v) |->
                                         IF @.v[i].nan THEN Num(0) ELSE @.v[i]])]

\* lines 540-550: the entries of val_tp
Residuals(pen) ==
    [i \in 1..Len(pen.val) |->
        IF pen.target.tag = "None" THEN pen.val[i]
        ELSE IF pen.target.v[i].nan THEN 0
        ELSE pen.val[i] - pen.target.v[i].v]

\* lines 549-556: val of __extract_objective
Extracted(pen) ==
    SumSeq([i \in 1..Len(pen.val) |->
               IF pen.quadratic THEN Residuals(pen)[i] * Residuals(pen)[i]
               ELSE Residuals(pen)[i]])

Weighted(pen) == pen.weight * Extracted(pen) * pen.dt

\* lines 564-571 and 577-587: the line printed for a group of penalties
GroupLine(J) ==
    Line(J[1].name, SumSeq([j \in 1..Len(J) |-> Extracted(J[j])]),
                    SumSeq([j \in 1..Len(J) |-> Weighted(J[j])]))

GroupLines(Js) == [k \in 1..Len(Js) |-> GroupLine(Js[k])]

\* the groups after every penalty went through __extract_objective
GroupsAfter(Js) == [k \in 1..Len(Js) |-> [j \in 1..Len(Js[k]) |-> ZeroNan(Js[k][j])]]

RECURSIVE SumWeighted(_)
SumWeighted(lines) == IF lines = <<>> THEN 0 ELSE lines[1].b + SumWeighted(Tail(lines))

RECURSIVE PhaseCosts(_, _)
PhaseCosts(o, p) ==
    IF p > Len(o.nlp) THEN <<>>
    ELSE <<Line("PHASE", p - 1, 0)>> \o GroupLines(o.nlp[p].J) \o <<Line("", 0, 0)>>
         \o PhaseCosts(o, p + 1)

\* the phases printed before the first penalty of a phase is evaluated
RECURSIVE PhasesBeforePenalty(_, _)
PhasesBeforePenalty(o, p) ==
    IF p > Len(o.nlp) THEN <<>>
    ELSE IF o.nlp[p].J # <<>> THEN <<Line("PHASE", p - 1, 0)>>
    ELSE <<Line("PHASE", p - 1, 0), Line("", 0, 0)>> \o PhasesBeforePenalty(o, p + 1)

HasPenalty(o) == o.J # <<>> \/ \E p \in 1..Len(o.nlp) : o.nlp[p].J # <<>>

\* the costs printed when every penalty was evaluated
CostLines(global, phases) ==
    <<Line("COST FUNCTION VALUES", 0, 0)>> \o global
    \o (IF global # <<>> THEN <<Line("", 0, 0)>> ELSE <<>>) \o phases
    \o <<Line("Sum cost functions", SumWeighted(global \o phases), 0), Line("----", 0, 0)>>

\* lines 520-589.  The casadi function of line 540 raises when it is called
\* with sol.vector = None.
print_objective_functions(o, sol) ==
    IF sol.vector.tag = "None" /\ HasPenalty(o)
    THEN [err |-> "NotImplementedError", ocp |-> o,
          lines |-> <<Line("COST FUNCTION VALUES", 0, 0)>>
                    \o (IF o.J # <<>> THEN <<>> ELSE PhasesBeforePenalty(o, 1))]
    ELSE [err |-> "",
          ocp |-> [o EXCEPT !.J = GroupsAfter(@),
                            !.nlp = [p \in 1..Len(@) |-> [@[p] EXCEPT !.J = GroupsAfter(@)]]],
          lines |-> CostLines(GroupLines(o.J), PhaseCosts(o, 1))]

\* np.sum(sol.constraints[idx:next_idx])
SumSlice(v, idx, next_idx) ==
    SumSeq([i \in 1..(IF next_idx > Len(v) THEN Len(v) ELSE next_idx) - idx |-> v[idx + i]])

RECURSIVE SumRows(_)
SumRows(G) == IF G = <<>> THEN 0 ELSE G[1].rows + SumRows(Tail(G))

\* lines 602-609 (every: FALSE, next_idx restarts from idx at each constraint
\* of the group) and 613-620 (every: TRUE, next_idx adds them up)
RECURSIVE ConstraintLines(_, _, _, _)
ConstraintLines(Gs, idx, constraints, every) ==
    IF Gs = <<>> THEN [lines |-> <<>>, idx |-> idx]
    ELSE LET G        == Gs[1]
             next_idx == idx + (IF every THEN SumRows(G) ELSE G[Len(G)].rows)
             rest     == ConstraintLines(Tail(Gs), next_idx, constraints, every)
         IN  [lines |-> <<Line(G[Len(G)].name, SumSlice(constraints, idx, next_idx), 0)>>
                        \o rest.lines,
              idx |-> rest.idx]

RECURSIVE PhaseConstraints(_, _, _, _)
PhaseConstraints(o, p, idx, constraints) ==
    IF p > Len(o.nlp) THEN <<>>
    ELSE <<Line("PHASE", p - 1, 0)>>
         \o ConstraintLines(o.nlp[p].g, idx, constraints, TRUE).lines \o <<Line("", 0, 0)>>
         \o PhaseConstraints(o, p + 1,
                              ConstraintLines(o.nlp[p].g, idx, constraints, TRUE).idx,
                              constraints)

\* lines 591-624
print_constraints(o, sol) ==
    IF sol.constraints.tag = "None" THEN [err |-> "", ocp |-> o, lines |-> <<>>]
    ELSE [err |-> "", ocp |-> o,
          lines |-> <<Line("CONSTRAINTS", 0, 0)>>
                    \o ConstraintLines(o.g, 0, sol.constraints.v, FALSE).lines
                    \o (IF o.g # <<>> THEN <<Line("", 0, 0)>> ELSE <<>>)
                    \o PhaseConstraints(o, 1,
                                         ConstraintLines(o.g, 0, sol.constraints.v, FALSE).idx,
                                         sol.constraints.v)
                    \o <<Line("----", 0, 0)>>]

\* lines 630-632: the second report follows the first unless it raised
Both(first, sol) ==
    IF first.err # "" THEN first
    ELSE [print_constraints(first.ocp, sol) EXCEPT !.lines = first.lines \o @]

\* lines 626-634
print(self, o, data_type) ==
    IF data_type = "OBJECTIVES" THEN print_objective_functions(o, self)
    ELSE IF data_type = "CONSTRAINTS" THEN print_constraints(o, self)
    ELSE IF data_type = "ALL" THEN Both(print_objective_functions(o, self), self)
    ELSE [err |-> "ValueError", ocp |-> o, lines |-> <<>>]

----------------------------------------------------------------------------
(* Solution.interpolate.                                                   *)

\* n_frames is an int or a list of ints
Count(n) == [tag |-> "int", v |-> <<n>>]

\* The spline of a row through its m samples, evaluated at n uniformly spaced
\* times of the same span: the values at the grid points are those of the
\* samples, and a value between two samples is represented by the sample to
\* its left.  Only the shape of the result and its end points are exact.
ResampleKeepingSamples(x_phase, n) == x_phase

Resample(x_phase, n) ==
    LET m == NCols(x_phase)
        src(j) == IF n = 1 THEN 1 ELSE 1 + ((j - 1) * (m - 1)) \div (n - 1)
    IN  Mat(x_phase.nr, [j \in 1..n |-> x_phase.c[src(j)]])

\* lines 357-363: every key but "all" is a slice of rows of the new "all"
RECURSIVE InterpKeys(_, _, _, _)
InterpKeys(d, src, i, offset) ==
    IF i > Len(src) THEN d
    ELSE IF src[i].k = "all" THEN InterpKeys(d, src, i + 1, offset)
    ELSE InterpKeys(Put(d, src[i].k, RowSlice(Get(d, "all"), offset, src[i].m.nr)),
                    src, i + 1, offset + src[i].m.nr)

\* lines 344-363: st = [err, states]
RECURSIVE InterpPhases(_, _, _, _, _)
InterpPhases(st, data_states, phase_time, n_frames, p) ==
    IF st.err # "" \/ p > Len(data_states) THEN st
    ELSE IF ~HasKey(data_states[p], "all") THEN [st EXCEPT !.err = "KeyError"]
    ELSE IF p + 1 > Len(phase_time) THEN [st EXCEPT !.err = "IndexError"]
    ELSE IF n_frames[p] < 0 THEN [st EXCEPT !.err = "ValueError"]
    ELSE IF NCols(Get(data_states[p], "all")) = 0 THEN [st EXCEPT !.err = "TypeError"]
    ELSE LET x_interpolate == Resample(Get(data_states[p], "all"), n_frames[p])
         IN  InterpPhases([st EXCEPT !.states[p] =
                              InterpKeys(AllDict(x_interpolate), data_states[p], 1, 0)],
                          data_states, phase_time, n_frames, p + 1)

\* lines 365-366
InterpolateDone(self, out, done) ==
    IF done.err # "" THEN Raised(done.err, self)
    ELSE Returned([out EXCEPT !._states = List(done.states), !.is_interpolated = TRUE], self)

\* lines 341-366 on the phases data_states
InterpolateData(self, out, data_states, n_frames) ==
    IF data_states.tag = "None" THEN Raised("TypeError", self)
    ELSE InterpolateDone(self, out,
                         InterpPhases([err |-> "", states |-> [p \in 1..Len(data_states.v) |-> <<>>]],
                                      data_states.v, out.phase_time.v, n_frames, 1))

\* lines 330-332, m being the tuple returned by _merge_phases
InterpolateMerged(self, out0, n_frames, m) ==
    IF m.err # "" THEN Raised(m.err, self)
    ELSE InterpolateData(self,
                         [out0 EXCEPT !.phase_time = m.v.phase_time, !.ns = m.v.ns,
                                      !.is_merged = TRUE],
                         m.v.states, n_frames)

interpolate(self, n_frames) ==
    IF n_frames.tag = "int"
    THEN InterpolateMerged(self, copy(self, TRUE), n_frames.v,
                           _merge_phases(self, FALSE, TRUE, FALSE))
    ELSE IF self._states.tag = "None" THEN Raised("TypeError", self)
    ELSE IF Len(n_frames.v) # Len(self._states.v) THEN Raised("ValueError", self)
    ELSE InterpolateData(self, copy(self, TRUE), self._states, n_frames.v)

----------------------------------------------------------------------------
(* The state machine: one OCP, the lineage of Solutions derived from the   *)
(* first one, and the last call made.                                      *)

\* chain[i] is the i-th Solution of the lineage and made[i] the call that
\* returned it; lastCall is the last call: its receiver chain[recv] before
\* (pre) and after (post) the call, its exception and the Solution returned
NoCall ==
    [op |-> "none", args |-> <<>>, recv |-> 0, err |-> "", pre |-> NoSol, post |-> NoSol,
     out |-> NoSol]

Call(op, args, recv, pre, res) ==
    [op |-> op, args |-> args, recv |-> recv, err |-> res.err, pre |-> pre,
     post |-> res.self, out |-> res.out]

\* the receiver of the next call: the youngest Solution of the lineage
Receiver == chain[Len(chain)]

\* A run follows one lineage: every call is made on the Solution the previous
\* call returned.  A call that raises, or whose result would make the lineage
\* longer than MaxChain, is recorded in lastCall and ends the run.
Active ==
    /\ chain # <<>>
    /\ lastCall.err = ""
    /\ lastCall.recv < Len(chain)

\* a call on the receiver: the receiver is left as the call left it, and the
\* returned Solution, if any and if the lineage is not full, becomes the receiver
Apply(op, args, res) ==
    /\ lastCall' = Call(op, args, Len(chain), Receiver, res)
    /\ chain' = LET kept == [chain EXCEPT ![Len(chain)] = res.self]
                IN  IF res.err = "" /\ Len(chain) < MaxChain THEN Append(kept, res.out) ELSE kept
    /\ made' = IF res.err = "" /\ Len(chain) < MaxChain THEN Append(made, op) ELSE made
    /\ UNCHANGED <<ocp, plotted>>

SolKinds == {"dict", "vector", "none", "unknown"}

\* Solution(ocp, sol): the first Solution of the lineage, or the exception
Construct(args, res) ==
    /\ lastCall' = [NoCall EXCEPT !.op = "new", !.args = args, !.err = res.err,
                                  !.out = IF res.err = "" THEN res.v ELSE NoSol]
    /\ chain' = IF res.err = "" THEN <<res.v>> ELSE <<>>
    /\ made' = IF res.err = "" THEN <<"new">> ELSE <<>>
    /\ UNCHANGED <<ocp, plotted>>

New(kind) ==
    /\ chain = <<>>
    /\ lastCall.op = "none"
    /\ Construct(<<kind>>, IF kind = "dict" THEN init_from_dict(ocp)
                           ELSE IF kind = "vector" THEN init_from_vector(ocp)
                           ELSE IF kind = "none" THEN init_from_none(ocp)
                           ELSE Err("ValueError"))

NewFromGuess(sol) ==
    /\ chain = <<>>
    /\ lastCall.op = "none"
    /\ Construct(<<"guess", sol>>, init_from_initial_guess(ocp, sol))

\* a call on the receiver that returns a value, not a Solution: the value is
\* recorded and the lineage is left as it is
Read(op, args, res) ==
    /\ lastCall' = Call(op, args, Len(chain), Receiver,
                        [err |-> res.err, self |-> Receiver,
                         out |-> IF res.err = "" THEN res.v ELSE NoSol])
    /\ UNCHANGED <<ocp, chain, made, plotted>>

Controls ==
    /\ Active
    /\ Read("controls", <<>>, controls(Receiver))

\* a call on the receiver that returns nothing and calls the plotting collaborator
Plot(op, args, res) ==
    /\ lastCall' = Call(op, args, Len(chain), Receiver,
                        [err |-> res.err, self |-> Receiver, out |-> NoSol])
    /\ plotted' = plotted \o res.calls
    /\ UNCHANGED <<ocp, chain, made>>

Graphs(show_now, shooting_type) ==
    /\ Active
    /\ Plot("graphs", <<show_now, shooting_type>>, graphs(Receiver, show_now, shooting_type))

\* a call on the receiver that writes to the console and works on the
\* penalties of the program the lineage shares
Report(op, args, res) ==
    /\ lastCall' = Call(op, args, Len(chain), Receiver,
                        [err |-> res.err, self |-> Receiver, out |-> List(res.lines)])
    /\ ocp' = res.ocp
    /\ UNCHANGED <<chain, made, plotted>>

CostTypes == {"OBJECTIVES", "CONSTRAINTS", "ALL", "other"}

\* sol.print(data_type), on the youngest Solution, any number of times
PrintCosts(data_type) ==
    /\ chain # <<>>
    /\ lastCall.err = ""
    /\ lastCall.recv < Len(chain) \/ lastCall.op = "print"
    /\ Report("print", <<data_type>>, print(Receiver, ocp, data_type))

Copy(skip_data) ==
    /\ Active
    /\ Apply("copy", <<skip_data>>, Returned(copy(Receiver, skip_data), Receiver))

Integrate(shooting_type, merge, continuous) ==
    /\ Active
    /\ Apply("integrate", <<shooting_type, merge, continuous>>,
             integrate(Receiver, ocp, shooting_type, merge, continuous))

FrameCounts == 2..MaxFrames

\* a single count, or a list of counts (cycling through FrameCounts) for k phases
FrameArgs ==
    {Count(n) : n \in FrameCounts}
        \cup {List([p \in 1..k |-> 2 + ((a + p) % (MaxFrames - 1))]) :
                 k \in 1..MaxPhases, a \in 0..(MaxFrames - 2)}

Interpolate(n_frames) ==
    /\ Active
    /\ Apply("interpolate", <<n_frames>>, interpolate(Receiver, n_frames))

MergePhases ==
    /\ Active
    /\ Apply("merge_phases", <<>>, merge_phases(Receiver))

Init ==
    /\ ocp \in Ocps
    /\ chain = <<>>
    /\ made = <<>>
    /\ lastCall = NoCall
    /\ plotted = <<>>

Next ==
    \/ \E kind \in SolKinds : New(kind)
    \/ \E sol \in GuessInputs : NewFromGuess(sol)
    \/ \E skip_data \in BOOLEAN : Copy(skip_data)
    \/ \E st \in Shootings, merge \in BOOLEAN, continuous \in BOOLEAN :
          Integrate(st, merge, continuous)
    \/ \E n_frames \in FrameArgs : Interpolate(n_frames)
    \/ MergePhases
    \/ Controls
    \/ \E show_now \in BOOLEAN, st \in Shootings : Graphs(show_now, st)
    \/ \E data_type \in CostTypes : PrintCosts(data_type)

Spec == Init /\ [][Next]_vars

----------------------------------------------------------------------------
(* Properties.                                                             *)

Pre == lastCall.pre
Post == lastCall.post
Out == lastCall.out
Failed == lastCall.err # ""
Transforms == {"integrate", "interpolate", "merge_phases"}

Flagged(s) == s.is_integrated \/ s.is_interpolated \/ s.is_merged

\* a Solution holding decoded data of at least one phase
HasData(s) ==
    /\ s._states.tag = "list" /\ Len(s._states.v) >= 1
    /\ s._controls.tag = "list" /\ s._parameters.tag = "dict"

\* every phase declares the variables of the first one, in the same order
SameLayout(o) == \A p \in 1..Len(o.nlp) : o.nlp[p].var_states = o.nlp[1].var_states

\* every phase transition returns as many rows as the states have
TransitionsFit(o) ==
    \A p \in 1..Len(o.phase_transitions) : o.phase_transitions[p].dim = o.nlp[p].nx

\* C1 as stated: integrate fails whenever a flag of the receiver is set, and
\* returns an integrated Solution whenever no flag is set on a decoded
\* Solution with at least one phase.
C1_AsStated ==
    lastCall.op = "integrate" =>
        /\ Flagged(Pre) => Failed /\ Out = NoSol
        /\ ~Flagged(Pre) /\ HasData(Pre) => ~Failed /\ Out.is_integrated

\* C1 (amended): integrate fails and returns nothing whenever a flag of the
\* receiver is set, for every argument; with no flag set, on a decoded Solution
\* with at least one phase whose phases declare the same state variables and
\* whose phase transitions have the state dimension, it returns a Solution
\* with is_integrated set; whenever it returns, is_integrated is set.
C1_IntegrateGuard ==
    lastCall.op = "integrate" =>
        /\ Flagged(Pre) => Failed /\ Out = NoSol
        /\ Failed => Out = NoSol
        /\ ~Failed => Out.is_integrated
        /\ ~Flagged(Pre) /\ HasData(Pre) /\ SameLayout(ocp) /\ TransitionsFit(ocp) => ~Failed

C1_Witness ==
    /\ lastCall.op = "integrate" /\ Failed
    /\ Pre.is_merged /\ ~Pre.is_integrated /\ ~Pre.is_interpolated /\ HasData(Pre)

FlagsKept(a, b) ==
    /\ a.is_integrated => b.is_integrated
    /\ a.is_interpolated => b.is_interpolated
    /\ a.is_merged => b.is_merged

\* C2: along a lineage built by integrate, interpolate, merge_phases and copy,
\* a flag set in a Solution is set in every Solution derived from it, and
\* integrate fails on every Solution derived from the result of an integrate.
C2_FlagsOneWay ==
    /\ \A i, j \in 1..Len(chain) : i < j => FlagsKept(chain[i], chain[j])
    /\ lastCall.op \in Transforms \cup {"copy"} /\ Out # NoSol =>
          \A i \in 1..lastCall.recv : FlagsKept(chain[i], Out)
    /\ lastCall.op = "integrate" /\ (\E i \in 1..lastCall.recv : made[i] = "integrate") => Failed

C2_Witness ==
    /\ lastCall.op = "integrate" /\ Failed /\ lastCall.recv = 3
    /\ made[2] = "integrate" /\ made[3] \in {"copy", "interpolate", "merge_phases"}

NewlySet(a, b) ==
    {f \in {"integrated", "interpolated", "merged"} :
        \/ f = "integrated" /\ ~a.is_integrated /\ b.is_integrated
        \/ f = "interpolated" /\ ~a.is_interpolated /\ b.is_interpolated
        \/ f = "merged" /\ ~a.is_merged /\ b.is_merged}

\* C3 as stated: a call to integrate, interpolate or merge_phases newly sets
\* exactly one flag.
C3_AsStated ==
    lastCall.op \in Transforms /\ ~Failed => Cardinality(NewlySet(Pre, Out)) = 1

\* C3 (amended): the Solution returned by integrate, interpolate or
\* merge_phases has the flag of the call set, keeps every flag of the receiver,
\* and the only other flag it can newly set is merged: integrate sets it when
\* merge_phases is requested, interpolate when n_frames is a single count.
C3_FlagsPerCall ==
    lastCall.op \in Transforms /\ ~Failed =>
        /\ FlagsKept(Pre, Out)
        /\ lastCall.op = "integrate" =>
              NewlySet(Pre, Out) = {"integrated"} \cup (IF lastCall.args[2] THEN {"merged"} ELSE {})
        /\ lastCall.op = "interpolate" =>
              NewlySet(Pre, Out) =
                 ({"interpolated"} \cup (IF lastCall.args[1].tag = "int" THEN {"merged"} ELSE {}))
                    \ {f \in {"interpolated", "merged"} :
                          \/ f = "interpolated" /\ Pre.is_interpolated
                          \/ f = "merged" /\ Pre.is_merged}
        /\ lastCall.op = "merge_phases" =>
              NewlySet(Pre, Out) = IF Pre.is_merged THEN {} ELSE {"merged"}
        /\ lastCall.op = "merge_phases" => Out.is_merged

C3_Witness ==
    /\ lastCall.op = "integrate" /\ ~Failed /\ lastCall.args[2]
    /\ NewlySet(Pre, Out) = {"integrated", "merged"}

\* C4: integrate, interpolate and merge_phases leave their receiver as it
\* was, whether they return a Solution or raise.
C4_ReceiverUnchanged ==
    lastCall.op \in Transforms =>
        /\ Post = Pre
        /\ chain[lastCall.recv] = Pre

C4_Witness ==
    /\ lastCall.op = "integrate" /\ lastCall.args[1] = "SINGLE"
    /\ Len(Pre._states.v) >= 2 /\ ~Failed

AllButLast(m) == SubSeq(m.c, 1, NCols(m) - 1)

\* all but the last column of every phase, then the last column of the last phase
RECURSIVE JoinedCols(_, _, _)
JoinedCols(data, key, p) ==
    IF p > Len(data) THEN <<Get(data[Len(data)], key).c[NCols(Get(data[Len(data)], key))]>>
    ELSE AllButLast(Get(data[p], key)) \o JoinedCols(data, key, p + 1)

JoinedAsStated(merged, data) ==
    /\ merged.tag = "list" /\ Len(merged.v) = 1
    /\ KeySet(merged.v[1]) = KeySet(data[1])
    /\ \A key \in KeySet(data[1]) : Get(merged.v[1], key).c = JoinedCols(data, key, 1)

\* C5 as stated: merge_phases of a Solution with more than one phase, decoded
\* or returned by integrate without merge_phases (continuous or not), joins,
\* per key, all but the last column of each phase and the last column of the
\* final phase.
C5_AsStated ==
    (/\ lastCall.op = "merge_phases" /\ ~Failed
     /\ ~Pre.is_merged /\ ~Pre.is_interpolated
     /\ Pre._states.tag = "list" /\ Len(Pre._states.v) > 1) =>
        /\ JoinedAsStated(Out._states, Pre._states.v)
        /\ Pre._controls.tag = "list" => JoinedAsStated(Out._controls, Pre._controls.v)

\* the part of C5 the code satisfies: every receiver but the result of a
\* non-continuous integrate
C5_ContinuousOrDecoded ==
    (/\ lastCall.op = "merge_phases" /\ ~Failed
     /\ ~Pre.is_merged /\ ~Pre.is_interpolated
     /\ Pre._states.tag = "list" /\ Len(Pre._states.v) > 1
     /\ \A p \in 1..Len(Pre._states.v) : NCols(Get(Pre._states.v[p], "all")) = Pre.ns[p] + 1) =>
        /\ JoinedAsStated(Out._states, Pre._states.v)
        /\ Pre._controls.tag = "list" => JoinedAsStated(Out._controls, Pre._controls.v)

\* some phase has other keys than the first, or other row counts for a key
Incoherent(data) ==
    \E p \in 1..Len(data) :
        \/ KeySet(data[p]) # KeySet(data[1])
        \/ \E key \in KeySet(data[1]) : Get(data[p], key).nr # Get(data[1], key).nr

\* C6: merge_phases of a Solution that is not merged and has two or more
\* phases raises, and returns nothing, whenever the state dictionaries (or the
\* control dictionaries) of its phases differ in their keys or in the row
\* count of a key.
C6_MergeRejectsIncoherent ==
    (/\ lastCall.op = "merge_phases" /\ ~Pre.is_merged
     /\ Pre._states.tag = "list" /\ Len(Pre._states.v) >= 2
     /\ \/ Incoherent(Pre._states.v)
        \/ Pre._controls.tag = "list" /\ Incoherent(Pre._controls.v)) =>
        Failed /\ Out = NoSol

\* the sanity check of _merge passes (same keys, same sizes in iteration
\* order) and the concatenation itself rejects the rows
C6_Witness ==
    /\ lastCall.op = "merge_phases" /\ ~Pre.is_merged /\ Len(Pre._states.v) = 2
    /\ Incoherent(Pre._states.v) /\ lastCall.err = "ValueError"

\* C7: the Solution returned by merge_phases has phase_time [0, sum of the
\* durations of the phases] and ns [sum of the node counts of the receiver];
\* phases of durations 1 and 1.5 (2 and 3 half units) give [0, 2.5].
C7_MergedTimeAndNodes ==
    lastCall.op = "merge_phases" /\ ~Failed =>
        /\ Out.ns = <<SumSeq(Pre.ns)>>
        /\ Out.phase_time.tag = "list" /\ Len(Out.phase_time.v) = 2 /\ Out.phase_time.v[1] = 0
        /\ Pre._states.tag = "list" =>
              Out.phase_time.v[2] = SumSeq([p \in 1..Len(ocp.nlp) |-> Tf(p)])
        /\ Pre._states.tag = "list" /\ Len(ocp.nlp) = 2 => Out.phase_time.v = <<0, 5>>

C7_Witness ==
    /\ lastCall.op = "merge_phases" /\ ~Failed /\ ~Pre.is_merged
    /\ Pre.phase_time.v = <<0, 2, 3>> /\ Out.phase_time.v = <<0, 5>>
    /\ Pre.ns = <<1, 2>> /\ Out.ns = <<3>>

\* C8: merge_phases of a single-phase or of an already merged Solution returns
\* the data of the receiver (states, controls, parameters, phase_time, ns)
\* with is_merged set, and merging the result again returns it unchanged.
C8_SinglePhaseMergeNoOp ==
    lastCall.op = "merge_phases" /\ ~Failed =>
        /\ (Pre.is_merged \/ (Pre._states.tag = "list" /\ Len(Pre._states.v) = 1)) =>
              Out = [Pre EXCEPT !.is_merged = TRUE]
        /\ made[lastCall.recv] = "merge_phases" => Out = Pre

C8_Witness ==
    /\ lastCall.op = "merge_phases" /\ ~Failed /\ made[lastCall.recv] = "merge_phases"
    /\ Len(ocp.nlp) = 1 /\ Len(Out._states.v) = 1 /\ Out._controls.tag = "list"

RowsOf(d) == [i \in 1..Len(d) |-> [k |-> d[i].k, nr |-> d[i].m.nr]]

\* C9: interpolate returns arrays with the requested number of columns: with
\* a list, phase p of the result has n_frames[p] columns for "all" and for
\* every key and the number of phases is that of the receiver; with a single
\* count N the result has one phase and N columns; the keys and their row
\* counts are those of the receiver.
C9_InterpolateColumns ==
    lastCall.op = "interpolate" /\ ~Failed =>
        LET n_frames == lastCall.args[1]
            phases   == Out._states.v
        IN  /\ Out._states.tag = "list"
            /\ n_frames.tag = "list" =>
                  /\ Len(phases) = Len(Pre._states.v)
                  /\ \A p \in 1..Len(phases) :
                        /\ \A i \in 1..Len(phases[p]) : NCols(phases[p][i].m) = n_frames.v[p]
                        /\ RowsOf(phases[p]) = RowsOf(Pre._states.v[p])
            /\ n_frames.tag = "int" =>
                  /\ Len(phases) = 1
                  /\ \A i \in 1..Len(phases[1]) : NCols(phases[1][i].m) = n_frames.v[1]
                  /\ RowsOf(phases[1]) = RowsOf(Pre._states.v[1])

C9_Witness ==
    /\ lastCall.op = "interpolate" /\ ~Failed /\ lastCall.args[1] = List(<<3, 2>>)
    /\ NCols(Get(Out._states.v[1], "q")) = 3 /\ NCols(Get(Out._states.v[2], "qdot")) = 2
    /\ NCols(Get(Pre._states.v[1], "q")) = 2 /\ NCols(Get(Pre._states.v[2], "qdot")) = 3

\* C10: after decoding, each control array of a CONSTANT phase has one more
\* column than was decoded, that is ns + 1, as many as the states, the added
\* column being a copy of the one before it; the control arrays of a
\* LINEAR_CONTINUOUS phase are as decoded; with any other control type the
\* construction raises.
C10_ControlCompletion ==
    lastCall.op = "new" /\ lastCall.args[1] \in {"dict", "vector", "guess"} =>
        LET decoded == to_dictionaries(ocp, SolverVector(ocp)).controls
        IN  /\ (\E p \in 1..Len(ocp.nlp) :
                   ocp.nlp[p].control_type \notin {"CONSTANT", "LINEAR_CONTINUOUS"}) => Failed
            /\ ~Failed =>
                  \A p \in 1..Len(ocp.nlp) :
                     /\ RowsOf(Out._controls.v[p]) = RowsOf(decoded[p])
                     /\ ocp.nlp[p].control_type = "LINEAR_CONTINUOUS" =>
                           Out._controls.v[p] = decoded[p]
                     /\ ocp.nlp[p].control_type = "CONSTANT" =>
                           \A i \in 1..Len(decoded[p]) :
                              LET m == Out._controls.v[p][i].m
                                  d == decoded[p][i].m
                              IN  /\ NCols(m) = NCols(d) + 1
                                  /\ NCols(m) = ocp.nlp[p].ns + 1
                                  /\ NCols(m) = NCols(Get(Out._states.v[p], "all"))
                                  /\ SubSeq(m.c, 1, NCols(d)) = d.c
                                  /\ m.c[NCols(m)] = m.c[NCols(m) - 1]

C10_Witness ==
    /\ lastCall.op = "new" /\ ~Failed /\ Len(ocp.nlp) = 2
    /\ ocp.nlp[1].control_type = "LINEAR_CONTINUOUS" /\ ocp.nlp[2].control_type = "CONSTANT"
    /\ ocp.nlp[2].ns = 2 /\ NCols(Get(Out._controls.v[2], "tau")) = 3

IsGuess(e) == e.type \in {"InitialGuess", "InitialGuessList"}

\* the states and controls entries are guesses with one element per phase,
\* and the third entry has length 1 and the size of the parameters
WellFormedTriple(o, sol) ==
    /\ Len(sol) = 3
    /\ \A i \in {1, 2} : IsGuess(sol[i]) /\ sol[i].len = Len(o.nlp)
    /\ sol[3].len = 1
    /\ o.n_param # 0 => sol[3].rows = o.n_param

\* C11 as stated: construction from a list of initial guesses raises a
\* validation error when the states or the controls entry is not a guess
\* list, when its length is not the number of phases, and when parameters
\* exist and the third entry has not length 1 and the size of the parameters;
\* the third entry need not have one element per phase, so that a well-formed
\* triple is accepted for any number of phases.
C11_AsStated ==
    lastCall.op = "new" /\ lastCall.args[1] = "guess" =>
        LET sol == AsLists(ocp, lastCall.args[2])
        IN  /\ (\E i \in {1, 2} : ~IsGuess(sol[i])) => lastCall.err = "ValueError"
            /\ (\E i \in {1, 2} : sol[i].len # Len(ocp.nlp)) => lastCall.err = "ValueError"
            /\ (ocp.n_param # 0 /\ Len(sol) = 3
                   /\ ~(sol[3].len = 1 /\ sol[3].rows = ocp.n_param)) =>
                  lastCall.err = "ValueError"
            /\ WellFormedTriple(ocp, sol) => lastCall.err # "ValueError"

\* what lines 124-137 do: a validation error exactly when the entries that
\* are guess lists are not two, or some entry, the third included, has not
\* one element per phase; the size of the parameters is never looked at
C11_ValidationOfTheCode ==
    lastCall.op = "new" /\ lastCall.args[1] = "guess" =>
        LET sol == AsLists(ocp, lastCall.args[2])
        IN  lastCall.err = "ValueError" <=>
               \/ Cardinality({i \in 1..Len(sol) : sol[i].type = "InitialGuessList"}) # 2
               \/ \E i \in 1..Len(sol) : sol[i].len # Len(ocp.nlp)

\* integrate(MULTIPLE, merge_phases=False) returned, the dynamics being the
\* identity step with one integration step per interval
IdentityMultiple ==
    /\ lastCall.op = "integrate" /\ ~Failed
    /\ lastCall.args[1] = "MULTIPLE" /\ ~lastCall.args[2]
    /\ ocp.rate = 0 /\ \A p \in 1..Len(ocp.nlp) : ocp.nlp[p].n_integration_steps = 1

\* C12 as stated: with MULTIPLE shooting, identity steps and one step per
\* interval, integrate (continuous) returns the decoded states of the
\* receiver, column for column, the final node included.
C12_AsStated ==
    IdentityMultiple /\ lastCall.args[3] => Out._states = Pre._states

\* C12 (amended): with MULTIPLE shooting, identity steps and one step per
\* interval, integrate returns in continuous mode ns + 1 columns per phase,
\* column n being the decoded column n for every n < ns and the final column
\* being the decoded column ns - 1 (the identity step of the last interval);
\* in non-continuous mode 2 ns columns, each decoded column n < ns twice; the
\* named keys are the rows of these columns.
C12_IdentityStep ==
    IdentityMultiple =>
        \A p \in 1..Len(Out._states.v) :
            LET a  == Get(Out._states.v[p], "all")
                d  == Get(Pre._states.v[p], "all")
                ns == Pre.ns[p]
            IN  /\ Len(Out._states.v) = Len(Pre._states.v)
                /\ Out._states.v[p] = Dispatch(AllDict(a), a, ocp.nlp[p].var_states, 0)
                /\ lastCall.args[3] =>
                      /\ NCols(a) = ns + 1
                      /\ \A n \in 1..ns : a.c[n] = d.c[n]
                      /\ a.c[ns + 1] = d.c[ns]
                /\ ~lastCall.args[3] =>
                      /\ NCols(a) = 2 * ns
                      /\ \A n \in 1..ns : a.c[2 * n - 1] = d.c[n] /\ a.c[2 * n] = d.c[n]

C12_Witness ==
    /\ IdentityMultiple /\ lastCall.args[3]
    /\ Len(ocp.nlp) = 2 /\ Pre.ns = <<2, 1>>
    /\ Get(Out._states.v[1], "all").c[3] = Get(Pre._states.v[1], "all").c[2]
    /\ Get(Out._states.v[1], "all").c[3] # Get(Pre._states.v[1], "all").c[3]

\* C13: reading controls raises on every Solution returned by integrate or
\* interpolate and on every Solution derived from one; on a Solution decoded
\* from data, and on the result of merge_phases applied (once or more) to
\* it, it returns the control dictionaries: the dict of the only phase, or
\* the list of the dicts of the phases.
C13_ControlsMissing ==
    lastCall.op = "controls" =>
        /\ (\E i \in 1..lastCall.recv : made[i] \in {"integrate", "interpolate"}) =>
              lastCall.err = "RuntimeError" /\ Out = NoSol
        /\ (HasData(chain[1]) /\ \A i \in 2..lastCall.recv : made[i] = "merge_phases") =>
              /\ ~Failed
              /\ Out = IF Len(Pre._controls.v) = 1 THEN Dict(Pre._controls.v[1]) ELSE Pre._controls
              /\ lastCall.recv = 1 =>
                    Pre._controls.v = _complete_control(ocp, to_dictionaries(ocp, Pre.vector.v).controls).v

C13_Witness ==
    /\ lastCall.op = "controls" /\ lastCall.err = "RuntimeError"
    /\ lastCall.recv = 3 /\ made = <<"new", "integrate", "merge_phases">>

\* C14: graphs raises, and calls neither the plotting collaborator nor
\* pyplot, on a Solution with a flag set; on a Solution with no flag set it
\* prepares the plots and gives them the decision vector of the Solution.
C14_GraphsGuard ==
    lastCall.op = "graphs" =>
        /\ Post = Pre
        /\ Flagged(Pre) => lastCall.err = "NotImplementedError" /\ plotted = <<>>
        /\ ~Flagged(Pre) =>
              /\ ~Failed
              /\ Len(plotted) >= 2
              /\ plotted[1].fn = "prepare_plots"
              /\ plotted[2] = [fn |-> "update_data", arg |-> Pre.vector]

C14_Witness ==
    /\ lastCall.op = "graphs" /\ Failed /\ plotted = <<>>
    /\ Pre.is_integrated /\ ~Pre.is_merged /\ ~Pre.is_interpolated

\* integrate(shooting_type, merge_phases=False) returned
Integrated(shooting_type) ==
    /\ lastCall.op = "integrate" /\ ~Failed
    /\ lastCall.args[1] = shooting_type /\ ~lastCall.args[2]

\* columns written per interval (lines 266 and 270)
StepsOf(p) == ocp.nlp[p].n_integration_steps + (IF lastCall.args[3] THEN 0 ELSE 1)

\* the state interval n (0-based) of phase p was integrated from: the first
\* point the dynamics returned for it
StartOf(p, n) == Get(Out._states.v[p], "all").c[n * StepsOf(p) + 1]

\* the last point the dynamics returns for interval n of phase p
EndOf(p, n) ==
    LET xall == Dynamics(ocp, p, StartOf(p, n), ControlOf(Pre, ocp, p, n).v).v
    IN  xall.c[NCols(xall)]

\* C15: the start state of each interval.  MULTIPLE: interval n of phase p
\* starts from column n of the decoded states of the receiver.  SINGLE: the
\* first interval of the first phase starts from decoded column 0, a later
\* interval from the last point integrated over the previous interval, the
\* first interval of a later phase from the last point integrated over the
\* previous phase plus the value of the phase transition; integrate raises
\* when that value has not as many rows as the state it is added to.
C15_StartStates ==
    /\ Integrated("MULTIPLE") =>
          \A p \in 1..Len(Pre._states.v) : \A n \in 0..(Pre.ns[p] - 1) :
              StartOf(p, n) = Get(Pre._states.v[p], "all").c[n + 1]
    /\ Integrated("SINGLE") =>
          \A p \in 1..Len(Pre._states.v) : \A n \in 0..(Pre.ns[p] - 1) :
              StartOf(p, n) =
                  IF n > 0 THEN EndOf(p, n - 1)
                  ELSE IF p = 1 THEN Get(Pre._states.v[1], "all").c[1]
                  ELSE [r \in 1..Len(TransitionVal(ocp, p - 1)) |->
                           EndOf(p - 1, Pre.ns[p - 1] - 1)[r] + TransitionVal(ocp, p - 1)[r]]
    /\ lastCall.op = "integrate" /\ lastCall.args[1] = "SINGLE"
       /\ ~Flagged(Pre) /\ HasData(Pre) =>
          \A p \in 2..Len(Pre._states.v) :
              Len(TransitionVal(ocp, p - 1)) # Get(Pre._states.v[p - 1], "all").nr => Failed

C15_Witness ==
    /\ Integrated("SINGLE")
    /\ Len(Pre._states.v) = 2 /\ Pre.ns[1] = 2 /\ ocp.rate # 0
    /\ StartOf(1, 1) # Get(Pre._states.v[1], "all").c[2]
    /\ StartOf(2, 0) # Get(Pre._states.v[2], "all").c[1]

\* C16 as stated: the program a Solution and its derivatives share is never
\* changed once the run has started: no call, print included, changes a
\* penalty, a penalty target, a phase descriptor or a phase transition.
C16_AsStated == [][ocp' = ocp]_vars

\* the node counts of a Solution agree with its states: one entry of ns per
\* phase, and ns[p] + 1 columns in every state array of phase p
Counted(sol) ==
    /\ Len(sol._states.v) = Len(sol.ns)
    /\ \A p \in 1..Len(sol._states.v) : \A k \in 1..Len(sol._states.v[p]) :
           NCols(sol._states.v[p][k].m) = sol.ns[p] + 1

\* C17 as stated: every Solution reached from a decoded Solution by integrate,
\* interpolate and merge_phases calls has one entry of ns per phase of its
\* states and ns[p] + 1 columns in every state array of phase p.
C17_AsStated ==
    \A i \in 1..Len(chain) :
        /\ HasData(chain[1])
        /\ \A j \in 2..i : made[j] \in Transforms
        => Counted(chain[i])

\* What holds of the node counts: a decoded Solution has them right, and
\* continuous integration and merge_phases keep them right.
C17_KeptWhenContinuous ==
    /\ lastCall.op = "new" /\ ~Failed /\ HasData(Out) => Counted(Out)
    /\ \/ lastCall.op = "integrate" /\ lastCall.args[3]
       \/ lastCall.op = "merge_phases"
       => (~Failed /\ HasData(Pre) /\ Counted(Pre) => Counted(Out))

====
